---- MODULE Spec2Model ----
(***************************************************************************)
(* Live session orchestration of the support dashboard.                    *)
(*                                                                         *)
(* The store holds two collections, chatSessions and chatMessages.  They   *)
(* are written by the socket handlers of server.js (create-session,        *)
(* send-message, agent-join-session, close-session) over the connection    *)
(* server.js opens itself, and by the REST routes /api/chat-sessions and   *)
(* /api/chat-messages through ChatService and MongoDBManager.              *)
(*                                                                         *)
(* Every handler is an async function: it runs synchronously up to an      *)
(* `await` of a store operation, the store applies that operation          *)
(* atomically, and the handler resumes.  One step of a request below is    *)
(* "the store applies the awaited operation and the handler runs on to its *)
(* next await (or to its end)".  Steps of different requests interleave    *)
(* freely.                                                                 *)
(***************************************************************************)
EXTENDS Integers, Sequences, FiniteSets, TLC

\* ------------------------------------------------------------------ bounds
\* requests the handlers of Spec and SpecClock serve
MaxReqs == 2
\* agents racing for one session in SpecJoinRace
MaxRacers == 3
\* ticks of the wall clock
MaxClock == 2

\* ------------------------------------------------------------ input domains
Reqs == 1..MaxReqs
Racers == 1..MaxRacers
Slots == Reqs \cup Racers
Agents == {"a1", "a2"}
MsgIds == {"m1", "m2"}
Senders == {"user", "agent"}
Statuses == {"waiting", "active", "closed"}

\* a field that is not present in a document or in a request body
Absent == "absent"
\* the result of a findOne that matches nothing
NoDoc == [id |-> "none"]
NoMsg == [id |-> "none", _id |-> 0]

AgentName(a) == IF a = "a1" THEN "Agent One" ELSE IF a = "a2" THEN "Agent Two" ELSE a

VARIABLES
  chatSessions,   \* the chatSessions collection, in insertion order
  chatMessages,   \* the chatMessages collection, in insertion order
  connected,      \* MongoDBManager has connected (and tried to create the indexes)
  sessionIdUnique,\* the unique index session_id_unique exists
  messageIdUnique,\* the unique index message_id_unique exists
  now,            \* the server's wall clock
  req,            \* the requests: position, inputs, what they saw, their outcome
  emitted,        \* the events emitted to rooms, in emission order
  sockets,        \* per client: its socket (id, clientType, rooms, joinedSessions)
  acks,           \* per client: the acknowledgments its sockets received, in order
  fetch,          \* the GET /api/chat-messages in flight and its response
  listing,        \* a client paging through ChatService.getSessions
  retry,          \* one call of MongoDBManager.withRetry
  rateLimitStore, \* rateLimitStore: client key -> { count, resetTime }
  requestLog,     \* the requests the rate limiter answered, in order
  hook            \* one useErrorHandler instance of a dashboard component

vars == <<chatSessions, chatMessages, connected, sessionIdUnique, messageIdUnique,
          now, req, emitted, sockets, acks, fetch, listing, retry, rateLimitStore,
          requestLog, hook>>

\* what the handlers of the session and message pipeline never touch
others == <<sockets, acks, fetch, listing, retry, rateLimitStore, requestLog, hook>>

\* ------------------------------------------------------------ store access
Min(S) == CHOOSE x \in S : \A y \in S : x <= y

\* collection.findOne({id}) : the first matching document in natural order
FindOne(coll, id, none) ==
  LET I == {i \in 1..Len(coll) : coll[i].id = id}
  IN  IF I = {} THEN none ELSE coll[Min(I)]

HasId(coll, id) == \E i \in 1..Len(coll) : coll[i].id = id

\* collection.updateOne(filter, {$set}) : the first matching document is changed
\* (I is the set of positions the filter matches; 0 stands for matchedCount = 0)
MatchIndex(I) == IF I = {} THEN 0 ELSE Min(I)

\* the filter { id }
IdFilter(coll, id) == {i \in 1..Len(coll) : coll[i].id = id}

\* $set of the fields that are present in the update
SetField(old, new) == IF new = Absent THEN old ELSE new

\* (supplied: a failed request came with an acknowledgment callback)
NoAck == [chan |-> "none", success |-> FALSE, duplicate |-> FALSE, error |-> "",
          mid |-> 0, status |-> Absent, agentId |-> Absent, supplied |-> FALSE]

IdleReq == [pc |-> "idle", kind |-> "none", sid |-> "s1", agentId |-> Absent,
            mid |-> Absent, sender |-> Absent, ts |-> 0,
            sawStatus |-> Absent, dupAtStart |-> FALSE, inserted |-> FALSE,
            ack |-> NoAck]

\* the acknowledgment of a socket handler: the callback when one was supplied
Chan(cb, other) == IF cb THEN "callback" ELSE other

Fail(r, kind, cb, err) ==
  [r EXCEPT !.pc = "done", !.kind = kind,
            !.ack = [NoAck EXCEPT !.chan = Chan(cb, "session-error"), !.error = err,
                                  !.supplied = cb]]

\* the catch block of a handler that declares no callback parameter: whatever the
\* caller passed, the failure goes to handleSocketError
FailByEvent(r, kind, cb, err) ==
  [r EXCEPT !.pc = "done", !.kind = kind,
            !.ack = [NoAck EXCEPT !.chan = "session-error", !.error = err,
                                  !.supplied = cb]]

TypeOK ==
  /\ now \in 0..MaxClock
  /\ connected \in BOOLEAN
  /\ Len(chatSessions) <= Cardinality(Slots) + 1
  /\ Len(chatMessages) <= Cardinality(Slots)
  /\ \A r \in Slots : req[r].pc \in {"idle", "create_insert", "join_update", "join_reread",
                                      "send_dedup", "send_insert", "send_bump",
                                      "rcreate_insert", "post_insert", "done"}

\* a session document as create-session stores it
SessionDoc(id, oid, status, agentId, at) ==
  [id |-> id, _id |-> oid, status |-> status, agentId |-> agentId,
   agentName |-> IF agentId = Absent THEN Absent ELSE AgentName(agentId),
   createdAt |-> at, updatedAt |-> at]

\* the stores the requests below start from: an empty store, or one session that
\* earlier requests created (waiting), an agent joined (active) or was closed
WaitingStore == << SessionDoc("s1", 0, "waiting", Absent, 0) >>

InitialStores ==
  { <<>>,
    WaitingStore,
    << [SessionDoc("s1", 0, "waiting", Absent, 0) EXCEPT
          !.status = "active", !.agentId = "a1", !.agentName = AgentName("a1")] >>,
    << [SessionDoc("s1", 0, "waiting", Absent, 0) EXCEPT !.status = "closed"] >> }

\* ------------------------------------------- the parts outside the pipeline
\* the clients that open sockets, and the client keys (IP addresses) of requests
Clients == {"c1"}
ClientKeys == {"ip1", "ip2"}

\* a socket before its connection: io.on('connection') sets clientType = null and
\* joinedSessions = new Set(); a new socket is in no room
IdleSocket == [up |-> FALSE, id |-> 0, clientType |-> Absent, rooms |-> {},
               joinedSessions |-> {}]

\* no pagination descriptor / no response yet
NoPagination == [page |-> 0, limit |-> 0, total |-> 0, totalPages |-> 0,
                 hasNext |-> FALSE, hasPrev |-> FALSE]
NoResponse == [status |-> 0, data |-> <<>>, pagination |-> NoPagination]

\* GET /api/chat-messages not started (storedAtStart, storedAtEnd: the length of
\* chatMessages when the request started and when it was answered)
IdleFetch == [pc |-> "idle", sid |-> "s1", page |-> 1, limit |-> 1, storedAtStart |-> 0,
              storedAtEnd |-> 0, found |-> FALSE, data |-> <<>>, counted |-> FALSE,
              total |-> 0, response |-> NoResponse]

\* a numeric option or filter bound that the caller did not supply (the supplied
\* ones are validated as integers >= 0)
Missing == -1

\* SessionFilters with nothing supplied (status: the set of the wanted statuses)
NoFilters == [status |-> {}, minDuration |-> Missing, maxDuration |-> Missing,
              minMessageCount |-> Missing, maxMessageCount |-> Missing]

\* no getSessions call made yet
NoListing == [pc |-> "idle", filters |-> NoFilters, page |-> Missing, limit |-> Missing,
              sortBy |-> Absent, sortOrder |-> Absent, pages |-> <<>>]

\* withRetry not called yet
IdleRetry == [pc |-> "idle", maxRetries |-> 0, attempt |-> 0, invocations |-> 0,
              raised |-> <<>>, waited |-> <<>>, thrown |-> "none"]

\* useErrorHandler before its component has mounted (retryCount: the React state
\* errorState.retryCount; captured: the errorState.retryCount that the running
\* retryOperation callback closed over)
UnmountedHook == [pc |-> "unmounted", maxRetries |-> 0, retryCount |-> 0, captured |-> 0,
                  invocations |-> 0]

\* rateLimitStore.get(key) === undefined
NoWindow == [count |-> 0, resetTime |-> -1]

OthersAtRest ==
  /\ sockets = [c \in Clients |-> IdleSocket]
  /\ acks = [c \in Clients |-> <<>>]
  /\ fetch = IdleFetch
  /\ listing = NoListing
  /\ retry = IdleRetry
  /\ rateLimitStore = [k \in ClientKeys |-> NoWindow]
  /\ requestLog = <<>>
  /\ hook = UnmountedHook

\* request slots are taken in order: slot r starts once slot r-1 has started
MayStart(r) == req[r].pc = "idle" /\ (IF r = 1 THEN TRUE ELSE req[r-1].pc # "idle")

Init ==
  /\ chatSessions \in InitialStores
  /\ chatMessages = <<>>
  /\ connected = FALSE
  /\ sessionIdUnique = FALSE
  /\ messageIdUnique = FALSE
  /\ now = 0
  /\ req = [r \in Slots |-> IdleReq]
  /\ emitted = <<>>
  /\ OthersAtRest


\* an event emitted through io.to(room).emit(ev, payload)
Ev(ev, sid, mid, status, agentId) ==
  [ev |-> ev, sid |-> sid, mid |-> mid, status |-> status, agentId |-> agentId]

SetReq(r, v) == req' = [req EXCEPT ![r] = v]

\* ---------------------------------------------------------------- the clock
\* the wall clock advances
Tick ==
  /\ now < MaxClock
  /\ now' = now + 1
  /\ UNCHANGED <<chatSessions, chatMessages, connected, sessionIdUnique,
                 messageIdUnique, req, emitted>>
  /\ UNCHANGED others

\* ------------------------------------------------- MongoDBManager.connect
NoDuplicateIds(coll) ==
  \A i, j \in 1..Len(coll) : coll[i].id = coll[j].id => i = j

\* createIndexes: one try block; a unique index cannot be built over duplicates,
\* the error is logged and swallowed, and the later indexes are not created
Connect ==
  /\ ~connected
  /\ connected' = TRUE
  /\ sessionIdUnique' = NoDuplicateIds(chatSessions)
  /\ messageIdUnique' = (NoDuplicateIds(chatSessions) /\ NoDuplicateIds(chatMessages))
  /\ UNCHANGED <<chatSessions, chatMessages, now, req, emitted>>
  /\ UNCHANGED others

\* ------------------------------------------- socket.on('create-session')
\* findOne({id}); throws 'Session already exists'; builds the document
CreateSessionFind(r, status, agentId, cb, ok) ==
  /\ MayStart(r)
  /\ LET existing == FindOne(chatSessions, req[r].sid, NoDoc)
     IN  IF ~ok THEN SetReq(r, Fail(req[r], "create-session", cb, "store"))
         ELSE IF existing # NoDoc
           THEN SetReq(r, Fail(req[r], "create-session", cb, "Session already exists"))
           ELSE SetReq(r, [req[r] EXCEPT !.pc = "create_insert", !.kind = "create-session",
                                         !.sawStatus = status,
                                         !.agentId = agentId, !.ts = now])
  /\ UNCHANGED <<chatSessions, chatMessages, connected, sessionIdUnique,
                 messageIdUnique, now, emitted>>
  /\ UNCHANGED others

\* insertOne(sessionDocument); emit new-chat-session; acknowledge
CreateSessionInsert(r, cb, ok) ==
  /\ req[r].pc = "create_insert"
  /\ IF ~ok \/ (sessionIdUnique /\ HasId(chatSessions, req[r].sid))
       THEN /\ SetReq(r, Fail(req[r], "create-session", cb,
                              IF ok THEN "duplicate key" ELSE "store"))
            /\ UNCHANGED <<chatSessions, emitted>>
       ELSE /\ chatSessions' = Append(chatSessions,
                 SessionDoc(req[r].sid, r, req[r].sawStatus, req[r].agentId, req[r].ts))
            /\ emitted' = Append(emitted, Ev("new-chat-session", req[r].sid, 0,
                                            req[r].sawStatus, req[r].agentId))
            /\ SetReq(r, [req[r] EXCEPT !.pc = "done", !.inserted = TRUE,
                   !.ack = [NoAck EXCEPT !.chan = Chan(cb, "session-created"),
                                         !.success = TRUE, !.status = req[r].sawStatus,
                                         !.agentId = req[r].agentId]])
  /\ UNCHANGED <<chatMessages, connected, sessionIdUnique, messageIdUnique, now>>
  /\ UNCHANGED others

\* ---------------------------------------- socket.on('agent-join-session')
\* findOne({id}); throws when the session is missing, active or closed
AgentJoinFind(r, a, cb, ok) ==
  /\ MayStart(r)
  /\ LET session == FindOne(chatSessions, req[r].sid, NoDoc)
         me == [req[r] EXCEPT !.agentId = a]
     IN  IF ~ok THEN SetReq(r, Fail(me, "agent-join-session", cb, "store"))
         ELSE IF session = NoDoc
           THEN SetReq(r, Fail(me, "agent-join-session", cb, "Session not found"))
         ELSE IF session.status = "active"
           THEN SetReq(r, Fail(me, "agent-join-session", cb, "already active"))
         ELSE IF session.status = "closed"
           THEN SetReq(r, Fail(me, "agent-join-session", cb, "already closed"))
         ELSE SetReq(r, [me EXCEPT !.pc = "join_update", !.kind = "agent-join-session",
                                   !.sawStatus = session.status, !.ts = now])
  /\ UNCHANGED <<chatSessions, chatMessages, connected, sessionIdUnique,
                 messageIdUnique, now, emitted>>
  /\ UNCHANGED others

JoinFilter_IdOnly(doc, sid) == doc.id = sid

\* the filter of the conditional update: { id, status: 'waiting' }
JoinFilter(doc, sid) == doc.id = sid /\ doc.status = "waiting"

\* updateOne({id, status:'waiting'}, {$set: {status:'active', agentId, agentName,
\* updatedAt}}); matchedCount = 0 throws
AgentJoinUpdate(r, cb, ok) ==
  /\ req[r].pc = "join_update"
  /\ LET i == MatchIndex({k \in 1..Len(chatSessions) :
                              JoinFilter(chatSessions[k], req[r].sid)})
     IN  IF ~ok \/ i = 0
           THEN /\ SetReq(r, Fail(req[r], "agent-join-session", cb,
                                  IF ok THEN "not available" ELSE "store"))
                /\ UNCHANGED chatSessions
           ELSE /\ chatSessions' = [chatSessions EXCEPT ![i] =
                      [@ EXCEPT !.status = "active", !.agentId = req[r].agentId,
                                !.agentName = AgentName(req[r].agentId),
                                !.updatedAt = req[r].ts]]
                /\ SetReq(r, [req[r] EXCEPT !.pc = "join_reread", !.inserted = TRUE])
  /\ UNCHANGED <<chatMessages, connected, sessionIdUnique, messageIdUnique, now, emitted>>
  /\ UNCHANGED others

\* findOne({id}) again; emit agent-joined and session-updated; acknowledge
AgentJoinReread(r, cb, ok) ==
  /\ req[r].pc = "join_reread"
  /\ LET updatedSession == FindOne(chatSessions, req[r].sid, NoDoc)
     IN  IF ~ok
           THEN /\ SetReq(r, Fail(req[r], "agent-join-session", cb, "store"))
                /\ UNCHANGED emitted
           ELSE /\ emitted' = emitted \o
                      << Ev("agent-joined", req[r].sid, 0, Absent, req[r].agentId),
                         Ev("session-updated", req[r].sid, 0, updatedSession.status,
                            updatedSession.agentId) >>
                /\ SetReq(r, [req[r] EXCEPT !.pc = "done",
                       !.ack = [NoAck EXCEPT !.chan = Chan(cb, "agent-join-success"),
                                             !.success = TRUE,
                                             !.status = updatedSession.status,
                                             !.agentId = updatedSession.agentId]])
  /\ UNCHANGED <<chatSessions, chatMessages, connected, sessionIdUnique,
                 messageIdUnique, now>>
  /\ UNCHANGED others

\* -------------------------------------------- socket.on('close-session')
\* updateOne({id}, {$set: {status:'closed', updatedAt}}); emit session-closed
CloseSession(r, cb, ok) ==
  /\ MayStart(r)
  /\ LET i == MatchIndex(IdFilter(chatSessions, req[r].sid))
     IN  IF ~ok \/ i = 0
           THEN /\ SetReq(r, FailByEvent(req[r], "close-session", cb,
                                  IF ok THEN "Session not found" ELSE "store"))
                /\ UNCHANGED <<chatSessions, emitted>>
           ELSE /\ chatSessions' = [chatSessions EXCEPT ![i] =
                      [@ EXCEPT !.status = "closed", !.updatedAt = now]]
                /\ emitted' = Append(emitted, Ev("session-closed", req[r].sid, 0,
                                                Absent, Absent))
                /\ SetReq(r, [req[r] EXCEPT !.pc = "done", !.kind = "close-session",
                                            !.inserted = TRUE])
  /\ UNCHANGED <<chatMessages, connected, sessionIdUnique, messageIdUnique, now>>
  /\ UNCHANGED others

\* ------------------------------------------------- socket.on('send-message')
\* a message document as it is inserted; sessionStatusAtInsert is a history
\* field: the stored status of the target session at the moment of the insert
MessageDoc(id, oid, sid, sender, at) ==
  [id |-> id, _id |-> oid, sessionId |-> sid, sender |-> sender, createdAt |-> at,
   sessionStatusAtInsert |-> LET s == FindOne(chatSessions, sid, NoDoc)
                             IN  IF s = NoDoc THEN "none" ELSE s.status]

\* insertOne(messageDocument) is refused by the unique index on id when it exists
InsertRefused(id) == messageIdUnique /\ HasId(chatMessages, id)

SendSessionError_NoClosedCheck(session) ==
  IF session = NoDoc THEN "Session not found" ELSE ""

\* the session check of send-message: 'Session not found' / closed
SendSessionError(session) ==
  IF session = NoDoc THEN "Session not found"
  ELSE IF session.status = "closed" THEN "Cannot send message to closed session"
  ELSE ""

\* findOne({id: sessionId}); reject a missing or closed session; without an id the
\* handler goes on to stamp the message and insert it
SendMessageFindSession(r, mid, sender, cb, ok) ==
  /\ MayStart(r)
  /\ LET session == FindOne(chatSessions, req[r].sid, NoDoc)
         me == [req[r] EXCEPT !.kind = "send-message", !.mid = mid, !.sender = sender,
                   !.sawStatus = IF session = NoDoc THEN "none" ELSE session.status,
                   !.dupAtStart = (mid # Absent /\ HasId(chatMessages, mid))]
     IN  IF ~ok THEN SetReq(r, Fail(me, "send-message", cb, "store"))
         ELSE IF SendSessionError(session) # ""
           THEN SetReq(r, Fail(me, "send-message", cb, SendSessionError(session)))
         ELSE IF mid # Absent
           THEN SetReq(r, [me EXCEPT !.pc = "send_dedup"])
           ELSE SetReq(r, [me EXCEPT !.pc = "send_insert", !.ts = now])
  /\ UNCHANGED <<chatSessions, chatMessages, connected, sessionIdUnique,
                 messageIdUnique, now, emitted>>
  /\ UNCHANGED others

\* if (existingMessage) : the dedup decision
IsDuplicate_Never(existingMessage) == FALSE

IsDuplicate(existingMessage) == existingMessage # NoMsg

\* findOne({id: messageData.id}); an existing message is returned as a duplicate
SendMessageFindExisting(r, cb, ok) ==
  /\ req[r].pc = "send_dedup"
  /\ LET existingMessage == FindOne(chatMessages, req[r].mid, NoMsg)
     IN  IF ~ok THEN SetReq(r, Fail(req[r], "send-message", cb, "store"))
         ELSE IF IsDuplicate(existingMessage)
           THEN SetReq(r, [req[r] EXCEPT !.pc = "done",
                    !.ack = [NoAck EXCEPT !.chan = Chan(cb, "none"), !.success = TRUE,
                                          !.duplicate = TRUE,
                                          !.mid = existingMessage._id]])
           ELSE SetReq(r, [req[r] EXCEPT !.pc = "send_insert", !.ts = now])
  /\ UNCHANGED <<chatSessions, chatMessages, connected, sessionIdUnique,
                 messageIdUnique, now, emitted>>
  /\ UNCHANGED others

\* io.to(sessionId).emit('new-message', newMessage) stands after the awaited
\* insertOne: it runs when the insert returned, and not when it threw
EmitNewMessage_BeforeInsert(r, persisted) ==
  Append(emitted, Ev("new-message", req[r].sid, r, Absent, Absent))

EmitNewMessage(r, persisted) ==
  IF persisted THEN Append(emitted, Ev("new-message", req[r].sid, r, Absent, Absent))
  ELSE emitted

\* insertOne(messageDocument), then io.to(sessionId).emit('new-message')
SendMessageInsert(r, cb, ok) ==
  /\ req[r].pc = "send_insert"
  /\ IF ~ok \/ InsertRefused(req[r].mid)
       THEN /\ SetReq(r, Fail(req[r], "send-message", cb,
                              IF ok THEN "duplicate key" ELSE "store"))
            /\ emitted' = EmitNewMessage(r, FALSE)
            /\ UNCHANGED chatMessages
       ELSE /\ chatMessages' = Append(chatMessages,
                 MessageDoc(req[r].mid, r, req[r].sid, req[r].sender, req[r].ts))
            /\ emitted' = EmitNewMessage(r, TRUE)
            /\ SetReq(r, [req[r] EXCEPT !.pc = "send_bump", !.inserted = TRUE])
  /\ UNCHANGED <<chatSessions, connected, sessionIdUnique, messageIdUnique, now>>
  /\ UNCHANGED others

BumpedAt_Now(r) == now

\* $set: { updatedAt: serverTimestamp } : the timestamp the message was stamped with
BumpedAt(r) == req[r].ts

\* updateOne({id: sessionId}, {$set: {updatedAt: serverTimestamp}}); acknowledge
SendMessageBump(r, cb, ok) ==
  /\ req[r].pc = "send_bump"
  /\ LET i == MatchIndex(IdFilter(chatSessions, req[r].sid))
     IN  IF ~ok
           THEN /\ SetReq(r, Fail(req[r], "send-message", cb, "store"))
                /\ UNCHANGED chatSessions
           ELSE /\ chatSessions' = IF i = 0 THEN chatSessions
                                   ELSE [chatSessions EXCEPT ![i].updatedAt = BumpedAt(r)]
                /\ SetReq(r, [req[r] EXCEPT !.pc = "done",
                       !.ack = [NoAck EXCEPT !.chan = Chan(cb, "none"), !.success = TRUE,
                                             !.mid = r]])
  /\ UNCHANGED <<chatMessages, connected, sessionIdUnique, messageIdUnique, now, emitted>>
  /\ UNCHANGED others

\* ------------------------------------------------------- the REST routes
\* the response of a route: withMiddleware turns a thrown error into its category
RestFail(r, kind, err) ==
  [r EXCEPT !.pc = "done", !.kind = kind,
            !.ack = [NoAck EXCEPT !.chan = "http", !.error = err]]

\* ChatService.updateSession: findOneAndUpdate({id}, {$set: {...updateData, updatedAt}})
UpdateSessionDoc(doc, status, agentId, at) ==
  [doc EXCEPT !.status = SetField(@, status),
              !.agentId = SetField(@, agentId),
              !.agentName = SetField(@, IF agentId = Absent THEN Absent
                                        ELSE AgentName(agentId)),
              !.updatedAt = at]

\* PUT /api/chat-sessions: at least one of status, agentId, agentName is given
PutSession(r, status, agentId, ok) ==
  /\ MayStart(r)
  /\ connected
  /\ ~(status = Absent /\ agentId = Absent)
  /\ LET i == MatchIndex(IdFilter(chatSessions, req[r].sid))
     IN  IF ~ok \/ i = 0
           THEN /\ SetReq(r, RestFail(req[r], "PUT-session",
                                      IF ok THEN "NotFound" ELSE "Server"))
                /\ UNCHANGED chatSessions
           ELSE /\ chatSessions' = [chatSessions EXCEPT ![i] =
                                      UpdateSessionDoc(@, status, agentId, now)]
                /\ SetReq(r, [req[r] EXCEPT !.pc = "done", !.kind = "PUT-session",
                       !.agentId = agentId, !.inserted = TRUE,
                       !.ack = [NoAck EXCEPT !.chan = "http", !.success = TRUE,
                                  !.status = chatSessions'[i].status,
                                  !.agentId = chatSessions'[i].agentId]])
  /\ UNCHANGED <<chatMessages, connected, sessionIdUnique, messageIdUnique, now, emitted>>
  /\ UNCHANGED others

\* POST /api/chat-sessions: getSessionById, ConflictError when the id exists
PostSessionGet(r, status, agentId, ok) ==
  /\ MayStart(r)
  /\ connected
  /\ LET existingSession == FindOne(chatSessions, req[r].sid, NoDoc)
     IN  IF ~ok THEN SetReq(r, RestFail(req[r], "POST-session", "Server"))
         ELSE IF existingSession # NoDoc
           THEN SetReq(r, RestFail(req[r], "POST-session", "Conflict"))
           ELSE SetReq(r, [req[r] EXCEPT !.pc = "rcreate_insert", !.kind = "POST-session",
                                         !.sawStatus = status, !.agentId = agentId,
                                         !.ts = now])
  /\ UNCHANGED <<chatSessions, chatMessages, connected, sessionIdUnique,
                 messageIdUnique, now, emitted>>
  /\ UNCHANGED others

\* ChatService.createSession: insertOne({...sessionData, createdAt, updatedAt})
PostSessionInsert(r, ok) ==
  /\ req[r].pc = "rcreate_insert"
  /\ IF ~ok \/ (sessionIdUnique /\ HasId(chatSessions, req[r].sid))
       THEN /\ SetReq(r, RestFail(req[r], "POST-session", "Server"))
            /\ UNCHANGED chatSessions
       ELSE /\ chatSessions' = Append(chatSessions,
                 SessionDoc(req[r].sid, r, req[r].sawStatus, req[r].agentId, req[r].ts))
            /\ SetReq(r, [req[r] EXCEPT !.pc = "done", !.inserted = TRUE,
                   !.ack = [NoAck EXCEPT !.chan = "http", !.success = TRUE,
                                         !.status = req[r].sawStatus,
                                         !.agentId = req[r].agentId]])
  /\ UNCHANGED <<chatMessages, connected, sessionIdUnique, messageIdUnique, now, emitted>>
  /\ UNCHANGED others

\* the checks of POST /api/chat-messages on the session it read
PostMessageError(session, sender) ==
  IF session = NoDoc THEN "NotFound"
  ELSE IF session.status = "closed" THEN "Validation"
  ELSE IF sender = "agent" /\ session.agentId \in {Absent, ""} THEN "Validation"
  ELSE ""

\* POST /api/chat-messages: getSessionById and the checks on the session
PostMessageGet(r, mid, sender, ok) ==
  /\ MayStart(r)
  /\ connected
  /\ LET session == FindOne(chatSessions, req[r].sid, NoDoc)
         me == [req[r] EXCEPT !.kind = "POST-message", !.mid = mid, !.sender = sender,
                   !.sawStatus = IF session = NoDoc THEN "none" ELSE session.status,
                   !.dupAtStart = HasId(chatMessages, mid)]
     IN  IF ~ok THEN SetReq(r, RestFail(me, "POST-message", "Server"))
         ELSE IF PostMessageError(session, sender) # ""
           THEN SetReq(r, RestFail(me, "POST-message", PostMessageError(session, sender)))
           ELSE SetReq(r, [me EXCEPT !.pc = "post_insert", !.ts = now])
  /\ UNCHANGED <<chatSessions, chatMessages, connected, sessionIdUnique,
                 messageIdUnique, now, emitted>>
  /\ UNCHANGED others

\* ChatService.createMessage: insertOne({...messageData, createdAt})
PostMessageInsert(r, ok) ==
  /\ req[r].pc = "post_insert"
  /\ IF ~ok \/ InsertRefused(req[r].mid)
       THEN /\ SetReq(r, RestFail(req[r], "POST-message", "Server"))
            /\ UNCHANGED chatMessages
       ELSE /\ chatMessages' = Append(chatMessages,
                 MessageDoc(req[r].mid, r, req[r].sid, req[r].sender, req[r].ts))
            /\ SetReq(r, [req[r] EXCEPT !.pc = "done", !.inserted = TRUE,
                   !.ack = [NoAck EXCEPT !.chan = "http", !.success = TRUE, !.mid = r]])
  /\ UNCHANGED <<chatSessions, connected, sessionIdUnique, messageIdUnique, now, emitted>>
  /\ UNCHANGED others

\* ---------------------------------------------------------- specification
CreateStatuses == Statuses
CreateAgents == {Absent, "a1"}
UpdateStatuses == {Absent} \cup Statuses
UpdateAgents == {Absent, ""} \cup Agents
SendIds == {Absent} \cup MsgIds

Next ==
  \/ Connect
  \/ \E r \in Reqs, cb \in BOOLEAN, ok \in BOOLEAN :
        \/ \E st \in CreateStatuses, a \in CreateAgents : CreateSessionFind(r, st, a, cb, ok)
        \/ CreateSessionInsert(r, cb, ok)
        \/ \E a \in Agents : AgentJoinFind(r, a, cb, ok)
        \/ AgentJoinUpdate(r, cb, ok)
        \/ AgentJoinReread(r, cb, ok)
        \/ \E m \in SendIds, s \in Senders : SendMessageFindSession(r, m, s, cb, ok)
        \/ SendMessageFindExisting(r, cb, ok)
        \/ SendMessageInsert(r, cb, ok)
        \/ SendMessageBump(r, cb, ok)
        \/ CloseSession(r, cb, ok)
  \/ \E r \in Reqs, ok \in BOOLEAN :
        \/ \E st \in UpdateStatuses, a \in UpdateAgents : PutSession(r, st, a, ok)
        \/ \E st \in CreateStatuses, a \in CreateAgents : PostSessionGet(r, st, a, ok)
        \/ PostSessionInsert(r, ok)
        \/ \E m \in MsgIds, s \in Senders : PostMessageGet(r, m, s, ok)
        \/ PostMessageInsert(r, ok)

\* Every handler, with the clock held still: no handler reads a timestamp back,
\* so the timestamps do not influence what the handlers do.
Spec == Init /\ [][Next]_vars

\* The send-message handlers with a running clock.
NextClock ==
  \/ Tick
  \/ \E r \in Reqs, cb \in BOOLEAN, ok \in BOOLEAN :
        \/ \E m \in SendIds, s \in Senders : SendMessageFindSession(r, m, s, cb, ok)
        \/ SendMessageFindExisting(r, cb, ok)
        \/ SendMessageInsert(r, cb, ok)
        \/ SendMessageBump(r, cb, ok)

SpecClock == Init /\ [][NextClock]_vars

\* Agents racing to join one waiting session; the store answers every operation.
InitJoinRace == Init /\ chatSessions = WaitingStore

NextJoinRace ==
  \E r \in Racers, cb \in BOOLEAN :
     \/ \E a \in Agents : AgentJoinFind(r, a, cb, TRUE)
     \/ AgentJoinUpdate(r, cb, TRUE)
     \/ AgentJoinReread(r, cb, TRUE)

SpecJoinRace == InitJoinRace /\ [][NextJoinRace]_vars

\* The handlers that change the status of a session over the socket, with a
\* running clock.
NextClose ==
  \/ Tick
  \/ \E r \in Reqs, cb \in BOOLEAN, ok \in BOOLEAN :
        \/ \E a \in Agents : AgentJoinFind(r, a, cb, ok)
        \/ AgentJoinUpdate(r, cb, ok)
        \/ AgentJoinReread(r, cb, ok)
        \/ CloseSession(r, cb, ok)

SpecClose == Init /\ [][NextClose]_vars

\* ============================================================ reading history
\* Timestamps are ISO strings of millisecond dates in the store; a string sort of
\* them and $dateFromString both agree with the number of ticks they were made
\* from, which is what the documents here carry.
Max(S) == CHOOSE x \in S : \A y \in S : x >= y

\* the orders in which n documents can be listed
Perms(S) ==
  {p \in [1..Cardinality(S) -> S] : \A i, j \in 1..Cardinality(S) : p[i] = p[j] => i = j}

\* cursor.sort({field: dir}): keys maps each matching position to its sort key and
\* dir is 1 or -1.  Documents with equal keys come in an order the store does not
\* fix: it may differ from one query to the next.
SortedOrders(keys, dir) ==
  {p \in Perms(DOMAIN keys) :
      \A i, j \in 1..Len(p) : i < j => dir * keys[p[i]] <= dir * keys[p[j]]}

\* cursor.skip(skip).limit(limit)
PageSlice(order, skip, limit) ==
  IF skip >= Len(order) THEN <<>>
  ELSE SubSeq(order, skip + 1, Min({Len(order), skip + limit}))

\* `x || d` on a number that may be missing
OrDefault(x, d) == IF x = Missing \/ x = 0 THEN d ELSE x

\* the page size limits: `|| 20` for sessions, `|| 50` for messages, at most 100
DefaultSessionLimit == 20
DefaultMessageLimit == 50
MaxPageSize == 100
\* route.ts: page 1 with limit <= 50 is a "recent messages" request
RecentLimit == 50

\* Math.max(1, options.page || 1)
ClampPage(page) == Max({1, OrDefault(page, 1)})

\* Math.min(100, Math.max(1, options.limit || d))
ClampLimit(limit, d) == Min({MaxPageSize, Max({1, OrDefault(limit, d)})})

\* Math.ceil(total / limit), total >= 0 and limit >= 1
TotalPages_Floor(total, limit) == total \div limit

TotalPages(total, limit) == (total + limit - 1) \div limit

\* the pagination descriptor both ChatService list methods build
Pagination(page, limit, total) ==
  [page |-> page, limit |-> limit, total |-> total,
   totalPages |-> TotalPages(total, limit),
   hasNext |-> page < TotalPages(total, limit),
   hasPrev |-> page > 1]

\* the query { sessionId }
MessagesOf(sid) == {i \in 1..Len(chatMessages) : chatMessages[i].sessionId = sid}

\* the sort keys of { createdAt: 1 } over the messages of a session
CreatedAtKeys(sid) == [i \in MessagesOf(sid) |-> chatMessages[i].createdAt]

\* the documents at the listed positions
MessagesAt(positions) == [k \in 1..Len(positions) |-> chatMessages[positions[k]]]

\* paginationSchema: page 1..1000 (default 1), limit 1..100 (default 20)
FetchPages == 1..3
FetchLimits == {1, 2, DefaultSessionLimit, RecentLimit + 1}

\* const isRecentRequest = pagination.page === 1 && pagination.limit <= 50
IsRecentRequest(page, limit) == page = 1 /\ limit <= RecentLimit

\* the HTTP response of a failed GET: withErrorHandling maps the error
FetchFailed(status) ==
  [fetch EXCEPT !.pc = "done", !.storedAtEnd = Len(chatMessages),
                !.response = [NoResponse EXCEPT !.status = status]]

\* GET /api/chat-messages: validate the query, getSessionById, choose the query.
\* (ok = FALSE: the store operation failed on every attempt of withRetry.)
GetMessagesSession(page, limit, ok) ==
  /\ connected
  /\ fetch.pc \in {"idle", "done"}
  /\ LET session == FindOne(chatSessions, fetch.sid, NoDoc)
         me == [IdleFetch EXCEPT !.page = page, !.limit = limit,
                                 !.storedAtStart = Len(chatMessages)]
     IN  fetch' = IF ~ok
                    THEN [me EXCEPT !.pc = "done", !.response.status = 500,
                                    !.storedAtEnd = me.storedAtStart]
                  ELSE IF session = NoDoc
                    THEN [me EXCEPT !.pc = "done", !.response.status = 404,
                                    !.storedAtEnd = me.storedAtStart]
                  ELSE IF IsRecentRequest(page, limit)
                    THEN [me EXCEPT !.pc = "recent"]
                    ELSE [me EXCEPT !.pc = "paged"]
  /\ UNCHANGED <<hook, chatSessions, chatMessages, connected, sessionIdUnique, messageIdUnique,
                 now, req, emitted, sockets, acks, listing, retry, rateLimitStore,
                 requestLog>>

\* ChatService.getRecentMessages: find({sessionId}).sort({createdAt: 1})
\* .limit(Math.min(100, limit)); the route builds the descriptor itself
GetRecentMessages(ok) ==
  /\ fetch.pc = "recent"
  /\ \E order \in SortedOrders(CreatedAtKeys(fetch.sid), 1) :
       LET messages == MessagesAt(PageSlice(order, 0, Min({MaxPageSize, fetch.limit})))
       IN  fetch' = IF ~ok THEN FetchFailed(500)
                    ELSE [fetch EXCEPT
                            !.pc = "done", !.data = messages,
                            !.storedAtEnd = Len(chatMessages),
                            !.response =
                               [status |-> 200, data |-> messages,
                                pagination |->
                                  [page |-> 1, limit |-> fetch.limit,
                                   total |-> Len(messages), totalPages |-> 1,
                                   hasNext |-> FALSE, hasPrev |-> FALSE]]]
  /\ UNCHANGED <<hook, chatSessions, chatMessages, connected, sessionIdUnique, messageIdUnique,
                 now, req, emitted, sockets, acks, listing, retry, rateLimitStore,
                 requestLog>>

\* ChatService.getMessages resolves once both queries of its Promise.all have
FetchAnswered(f) ==
  IF f.found /\ f.counted
    THEN [f EXCEPT !.pc = "done",
                   !.storedAtEnd = Len(chatMessages),
                   !.response = [status |-> 200, data |-> f.data,
                                 pagination |-> Pagination(ClampPage(f.page),
                                                   ClampLimit(f.limit, DefaultMessageLimit),
                                                   f.total)]]
    ELSE f

\* ChatService.getMessages, first query: find(query).sort(sort).skip(skip).limit(limit)
GetMessagesFind(ok) ==
  /\ fetch.pc = "paged"
  /\ ~fetch.found
  /\ \E order \in SortedOrders(CreatedAtKeys(fetch.sid), 1) :
       LET limit == ClampLimit(fetch.limit, DefaultMessageLimit)
           skip == (ClampPage(fetch.page) - 1) * limit
       IN  fetch' = IF ~ok THEN FetchFailed(500)
                    ELSE FetchAnswered([fetch EXCEPT !.found = TRUE,
                                          !.data = MessagesAt(PageSlice(order, skip, limit))])
  /\ UNCHANGED <<hook, chatSessions, chatMessages, connected, sessionIdUnique, messageIdUnique,
                 now, req, emitted, sockets, acks, listing, retry, rateLimitStore,
                 requestLog>>

\* ChatService.getMessages, second query: countDocuments(query)
GetMessagesCount(ok) ==
  /\ fetch.pc = "paged"
  /\ ~fetch.counted
  /\ fetch' = IF ~ok THEN FetchFailed(500)
              ELSE FetchAnswered([fetch EXCEPT !.counted = TRUE,
                                     !.total = Cardinality(MessagesOf(fetch.sid))])
  /\ UNCHANGED <<hook, chatSessions, chatMessages, connected, sessionIdUnique, messageIdUnique,
                 now, req, emitted, sockets, acks, listing, retry, rateLimitStore,
                 requestLog>>

\* Messages arrive through POST /api/chat-messages while the history is read.
InitHistory == Init /\ chatSessions = WaitingStore

NextHistory ==
  \/ Tick
  \/ Connect
  \/ \E r \in Reqs : \E m \in MsgIds, s \in Senders : PostMessageGet(r, m, s, TRUE)
  \/ \E r \in Reqs : PostMessageInsert(r, TRUE)
  \/ \E ok \in BOOLEAN :
        \/ \E p \in FetchPages, l \in FetchLimits : GetMessagesSession(p, l, ok)
        \/ GetRecentMessages(ok)
        \/ GetMessagesFind(ok)
        \/ GetMessagesCount(ok)

SpecHistory == InitHistory /\ [][NextHistory]_vars


\* ============================================================ listing sessions
\* sessions and messages in the store that SpecSessions lists
MaxSessions == 2
MaxStoredMsgs == 2
\* the largest duration / message count a filter names
MaxBound == 1

SessionNames == <<"s1", "s2", "s3", "s4">>
MessageNames == <<"m1", "m2", "m3", "m4">>

\* a stored session that was last updated at tick u (the odd ones are waiting,
\* the even ones closed)
ListedSession(k, u) ==
  [SessionDoc(SessionNames[k], k, IF k % 2 = 1 THEN "waiting" ELSE "closed", Absent, 0)
     EXCEPT !.updatedAt = u]

\* a stored message of session k
ListedMessage(j, k) ==
  [id |-> MessageNames[j], _id |-> j, sessionId |-> SessionNames[k], sender |-> "user",
   createdAt |-> 0, sessionStatusAtInsert |-> "waiting"]

\* the stores: up to MaxSessions sessions, up to MaxStoredMsgs messages among them
SessionStores ==
  UNION { { [k \in 1..n |-> ListedSession(k, u[k])] : u \in [1..n -> 0..MaxClock] }
          : n \in 0..MaxSessions }

MessageStores(n) ==
  IF n = 0 THEN { <<>> }
  ELSE UNION { { [j \in 1..m |-> ListedMessage(j, q[j])] :
                   q \in {f \in [1..m -> 1..n] : \A a, b \in 1..m : a < b => f[a] <= f[b]} }
               : m \in 0..MaxStoredMsgs }

\* the arguments of getSessions: the status filter as the route passes it (absent,
\* or the list of wanted statuses), the four bounds, page, limit and sortOrder
StatusFilters == { {}, {"closed"} }
FilterBounds == {Missing} \cup 0..MaxBound
ListingFilters ==
  [status : StatusFilters, minDuration : FilterBounds, maxDuration : FilterBounds,
   minMessageCount : FilterBounds, maxMessageCount : FilterBounds]
PageInputs == {Missing, 0, 2}
LimitInputs == {Missing, 1, 2, MaxPageSize + 1}
SortOrders == {"asc", "desc"}
\* options.sortBy: not supplied, or one of the two computed fields
SortBys == {Absent, "messageCount", "duration"}

\* `if (filters.minDuration)` : a bound is applied when it is truthy
Truthy(x) == x # Missing /\ x # 0

\* query.status = { $in: filters.status } (the other base filters are not supplied)
BaseMatch(doc, f) == f.status = {} \/ doc.status \in f.status

\* const needsAggregation = filters.minDuration || filters.maxDuration || ...
NeedsAggregation(f) ==
  Truthy(f.minDuration) \/ Truthy(f.maxDuration) \/ Truthy(f.minMessageCount)
    \/ Truthy(f.maxMessageCount)

\* $lookup from chatMessages on sessionId, messageCount: { $size: '$messages' }
MessageCount(doc) ==
  Cardinality({j \in 1..Len(chatMessages) : chatMessages[j].sessionId = doc.id})

\* duration: updatedAt - createdAt (neither is null in a stored session)
Duration(doc) == doc.updatedAt - doc.createdAt

\* the second $match: only the bounds that are truthy reach durationMatch
DerivedMatch(doc, f) ==
  /\ Truthy(f.minDuration) => Duration(doc) >= f.minDuration
  /\ Truthy(f.maxDuration) => Duration(doc) <= f.maxDuration
  /\ Truthy(f.minMessageCount) => MessageCount(doc) >= f.minMessageCount
  /\ Truthy(f.maxMessageCount) => MessageCount(doc) <= f.maxMessageCount

\* the positions both queries of a path match: the simple path applies the base
\* query, the aggregation path the base query and then durationMatch
Matching(f) ==
  {i \in 1..Len(chatSessions) :
      /\ BaseMatch(chatSessions[i], f)
      /\ NeedsAggregation(f) => DerivedMatch(chatSessions[i], f)}

\* sortBy = options.sortBy || 'updatedAt'; sortOrder === 'asc' ? 1 : -1
UpdatedAtKeys(f) == [i \in Matching(f) |-> chatSessions[i].updatedAt]
SortDir(sortOrder) == IF sortOrder = "asc" THEN 1 ELSE -1

\* the sort keys of { [sortBy]: sortOrder }: messageCount and duration exist only
\* in the documents of the aggregation path, where $addFields computed them; in
\* the simple path no stored session has such a field, and every document sorts
\* with the same (null) key
SortKeys(f, sortBy) ==
  IF sortBy = Absent THEN UpdatedAtKeys(f)
  ELSE [i \in Matching(f) |->
          IF ~NeedsAggregation(f) THEN 0
          ELSE IF sortBy = "messageCount" THEN MessageCount(chatSessions[i])
          ELSE Duration(chatSessions[i])]

\* what one getSessions call returns when its data query lists the matches in
\* `order`: the page of ids and the descriptor
SessionsPage(f, page, limit, order) ==
  LET p == ClampPage(page)
      l == ClampLimit(limit, DefaultSessionLimit)
      slice == PageSlice(order, (p - 1) * l, l)
  IN  [path |-> IF NeedsAggregation(f) THEN "aggregation" ELSE "simple",
       data |-> [k \in 1..Len(slice) |-> chatSessions[slice[k]].id],
       pagination |-> Pagination(p, l, Cardinality(Matching(f)))]

\* ChatService.getSessions(filters, {page, limit, sortBy, sortOrder}): the first
\* call of a client.  (ok = FALSE: the queries failed on every attempt of withRetry.)
GetSessions(f, page, limit, sortBy, sortOrder, ok) ==
  /\ connected
  /\ listing.pc = "idle"
  /\ \E order \in SortedOrders(SortKeys(f, sortBy), SortDir(sortOrder)) :
       listing' = IF ~ok THEN [NoListing EXCEPT !.pc = "failed"]
                  ELSE [pc |-> "open", filters |-> f, page |-> page, limit |-> limit,
                        sortBy |-> sortBy, sortOrder |-> sortOrder,
                        pages |-> << SessionsPage(f, page, limit, order) >>]
  /\ UNCHANGED <<hook, chatSessions, chatMessages, connected, sessionIdUnique, messageIdUnique,
                 now, req, emitted, sockets, acks, fetch, retry, rateLimitStore,
                 requestLog>>

\* the client asks for the next page while the last answer says hasNext
GetNextSessions(ok) ==
  /\ listing.pc = "open"
  /\ listing.pages[Len(listing.pages)].pagination.hasNext
  /\ \E order \in SortedOrders(SortKeys(listing.filters, listing.sortBy),
                               SortDir(listing.sortOrder)) :
       listing' = IF ~ok THEN [listing EXCEPT !.pc = "failed"]
                  ELSE [listing EXCEPT !.pages = Append(@,
                          SessionsPage(listing.filters,
                                       listing.pages[Len(listing.pages)].pagination.page + 1,
                                       listing.limit, order))]
  /\ UNCHANGED <<hook, chatSessions, chatMessages, connected, sessionIdUnique, messageIdUnique,
                 now, req, emitted, sockets, acks, fetch, retry, rateLimitStore,
                 requestLog>>

\* A store that does not change while a client lists it.
InitSessions ==
  /\ chatSessions \in SessionStores
  /\ chatMessages \in MessageStores(Len(chatSessions))
  /\ connected = TRUE
  /\ sessionIdUnique = FALSE
  /\ messageIdUnique = FALSE
  /\ now = MaxClock
  /\ req = [r \in Slots |-> IdleReq]
  /\ emitted = <<>>
  /\ OthersAtRest

NextSessions ==
  \/ /\ listing.pc = "idle"
     /\ \E f \in ListingFilters, p \in PageInputs, l \in LimitInputs, sb \in SortBys,
           o \in SortOrders, ok \in BOOLEAN : GetSessions(f, p, l, sb, o, ok)
  \/ \E ok \in BOOLEAN : GetNextSessions(ok)

SpecSessions == InitSessions /\ [][NextSessions]_vars


\* ====================================================== MongoDBManager.withRetry
\* the largest maxRetries a caller passes
MaxAttempts == 4
\* maxRetries: number = 3, delay: number = 1000
DefaultMaxRetries == 3
DefaultDelayMs == 1000

\* every caller in ChatService leaves maxRetries at its default
RetryArgs == 1..MaxAttempts \cup {DefaultMaxRetries}

\* what a rejected operation throws: a store error that may pass, or one of the
\* errors that recur on every attempt (a duplicate-key insert is a conflict)
ErrorKinds == {"transient", "validation", "not_found", "conflict"}

\* for (...; attempt <= maxRetries; ...)
LoopContinues(attempt, maxRetries) == attempt <= maxRetries

\* if (attempt === maxRetries) break
LastAttempt(attempt, maxRetries) == attempt = maxRetries

NextAttempt_Same(attempt) == attempt

\* attempt++
NextAttempt(attempt) == attempt + 1

\* delay * Math.pow(2, attempt - 1)
BackoffMs(attempt) == DefaultDelayMs * 2^(attempt - 1)

\* throw lastError : the error of the latest rejected attempt
LastError(raised) == IF raised = <<>> THEN "undefined" ELSE raised[Len(raised)]

\* withRetry(operation, maxRetries) is called and enters its loop
WithRetry(maxRetries) ==
  /\ retry.pc = "idle"
  /\ retry' = [IdleRetry EXCEPT
                 !.maxRetries = maxRetries, !.attempt = 1,
                 !.pc = IF LoopContinues(1, maxRetries) THEN "call" ELSE "thrown",
                 !.thrown = IF LoopContinues(1, maxRetries) THEN "none" ELSE "undefined"]
  /\ UNCHANGED <<hook, chatSessions, chatMessages, connected, sessionIdUnique, messageIdUnique,
                 now, req, emitted, sockets, acks, fetch, listing, rateLimitStore,
                 requestLog>>

\* return await operation() : the operation is invoked and resolves
OperationResolves ==
  /\ retry.pc = "call"
  /\ retry' = [retry EXCEPT !.pc = "returned", !.invocations = @ + 1]
  /\ UNCHANGED <<hook, chatSessions, chatMessages, connected, sessionIdUnique, messageIdUnique,
                 now, req, emitted, sockets, acks, fetch, listing, rateLimitStore,
                 requestLog>>

\* the operation is invoked and rejects: catch, break on the last attempt,
\* otherwise start the backoff timer
OperationRejects(err) ==
  /\ retry.pc = "call"
  /\ retry' = IF LastAttempt(retry.attempt, retry.maxRetries)
                THEN [retry EXCEPT !.pc = "thrown", !.invocations = @ + 1,
                                   !.raised = Append(@, err),
                                   !.thrown = LastError(Append(retry.raised, err))]
                ELSE [retry EXCEPT !.pc = "backoff", !.invocations = @ + 1,
                                   !.raised = Append(@, err),
                                   !.waited = Append(@, BackoffMs(retry.attempt))]
  /\ UNCHANGED <<hook, chatSessions, chatMessages, connected, sessionIdUnique, messageIdUnique,
                 now, req, emitted, sockets, acks, fetch, listing, rateLimitStore,
                 requestLog>>

\* the backoff timer fires: attempt++ and the loop test
BackoffElapses ==
  /\ retry.pc = "backoff"
  /\ retry' = IF LoopContinues(NextAttempt(retry.attempt), retry.maxRetries)
                THEN [retry EXCEPT !.pc = "call", !.attempt = NextAttempt(@)]
                ELSE [retry EXCEPT !.pc = "thrown", !.attempt = NextAttempt(@),
                                   !.thrown = LastError(retry.raised)]
  /\ UNCHANGED <<hook, chatSessions, chatMessages, connected, sessionIdUnique, messageIdUnique,
                 now, req, emitted, sockets, acks, fetch, listing, rateLimitStore,
                 requestLog>>

NextRetry ==
  \/ \E m \in RetryArgs : WithRetry(m)
  \/ OperationResolves
  \/ \E err \in ErrorKinds : OperationRejects(err)
  \/ BackoffElapses

SpecRetry == Init /\ [][NextRetry]_vars

\* ================================================================ rateLimit
\* the clock of SpecRateLimit counts milliseconds: it advances TickMs at a time up
\* to MaxTimeMs; the window length stands for the 15 minutes of the default
\* configuration, and the routes' maxRequests (50 .. 300) for 1 .. MaxRouteLimit
TickMs == 500
MaxTimeMs == 2000
WindowMs == 1500
MaxRouteLimit == 2
\* requests the limiter answers
MaxLogged == 4
\* Math.ceil((current.resetTime - now) / 1000)
MsPerSecond == 1000

\* withMiddleware builds rateLimit(options.rateLimit) for the request's route over
\* the one rateLimitStore of the module
RouteLimits == 1..MaxRouteLimit

\* Math.ceil(a / b), a >= 0
CeilDiv(a, b) == (a + b - 1) \div b

\* v.resetTime < now
WindowExpired(window, at) == window.resetTime < at

LimitReached_Above(current, maxRequests) == current.count > maxRequests

\* current.count >= finalConfig.maxRequests
LimitReached(current, maxRequests) == current.count >= maxRequests

\* the loop that deletes the entries whose window has expired
CleanedStore ==
  [k \in ClientKeys |-> IF rateLimitStore[k] # NoWindow /\ WindowExpired(rateLimitStore[k], now)
                          THEN NoWindow ELSE rateLimitStore[k]]

\* what the limiter answered: allowed (null: the handler runs) or the 429 response
Answered(key, maxRequests, allowed, retryAfter, window) ==
  [key |-> key, at |-> now, max |-> maxRequests, allowed |-> allowed,
   status |-> IF allowed THEN 0 ELSE 429, retryAfter |-> retryAfter,
   reset |-> window.resetTime]

\* rateLimit(config)(request) for a request of client `key` on a route whose
\* configuration is { maxRequests }
RateLimit(key, maxRequests) ==
  /\ Len(requestLog) < MaxLogged
  /\ LET current == CleanedStore[key]
         opened == [count |-> 1, resetTime |-> now + WindowMs]
     IN  IF current = NoWindow \/ WindowExpired(current, now)
           THEN /\ rateLimitStore' = [CleanedStore EXCEPT ![key] = opened]
                /\ requestLog' = Append(requestLog,
                                        Answered(key, maxRequests, TRUE, 0, opened))
         ELSE IF LimitReached(current, maxRequests)
           THEN /\ rateLimitStore' = CleanedStore
                /\ requestLog' = Append(requestLog,
                      Answered(key, maxRequests, FALSE,
                               CeilDiv(current.resetTime - now, MsPerSecond), current))
           ELSE /\ rateLimitStore' = [CleanedStore EXCEPT ![key].count = @ + 1]
                /\ requestLog' = Append(requestLog,
                                        Answered(key, maxRequests, TRUE, 0, current))
  /\ UNCHANGED <<hook, chatSessions, chatMessages, connected, sessionIdUnique, messageIdUnique,
                 now, req, emitted, sockets, acks, fetch, listing, retry>>

\* time passes between requests
Elapse ==
  /\ now + TickMs <= MaxTimeMs
  /\ now' = now + TickMs
  /\ UNCHANGED <<hook, chatSessions, chatMessages, connected, sessionIdUnique, messageIdUnique,
                 req, emitted, sockets, acks, fetch, listing, retry, rateLimitStore,
                 requestLog>>

NextRateLimit ==
  \/ Elapse
  \/ \E key \in ClientKeys, m \in RouteLimits : RateLimit(key, m)

SpecRateLimit == Init /\ [][NextRateLimit]_vars

\* =============================================================== socket rooms
\* connections a client opens one after the other, and events it sends
MaxSockets == 2
MaxCalls == 3

\* an argument of an event with its JavaScript type
Str(v) == [type |-> "string", value |-> v]
Undefined == [type |-> "undefined", value |-> ""]
\* the sessionId of join-session: two ids, '', undefined and the number 42
JoinIds == {Str("s1"), Str("s2"), Str(""), Undefined, [type |-> "number", value |-> "42"]}
\* clientData.type of register-client: the live dashboard, the chat-history
\* dashboard, the chatbot widget, or none
ClientTypes == {Str("dashboard"), Str("dashboard-history"), Str("chatbot"), Undefined}
\* the types whose clients listen for new-chat-session / session-updated
ObserverTypes == {"dashboard", "dashboard-history"}
DashboardRoom == "dashboard-clients"

\* !x
Falsy(x) == x.type = "undefined" \/ (x.type = "string" /\ x.value = "")

\* if (!sessionId || typeof sessionId !== 'string') throw new Error('Invalid session ID')
InvalidSessionId(sessionId) == Falsy(sessionId) \/ sessionId.type # "string"

JoinRoom_Only(rooms, room) == {room}

\* socket.join(room), socket.joinedSessions.add(id)
JoinRoom(rooms, room) == rooms \cup {room}

\* what the socket of client c is sent in answer to an event
Acked(c, event, arg, chan, success, error) ==
  acks' = [acks EXCEPT ![c] = Append(@, [socket |-> sockets[c].id, event |-> event,
                                        arg |-> arg, chan |-> chan, success |-> success,
                                        error |-> error])]

\* io.on('connection') : a new socket, in no room, with an empty joinedSessions
SocketConnect(c) ==
  /\ ~sockets[c].up
  /\ sockets[c].id < MaxSockets
  /\ sockets' = [sockets EXCEPT ![c] = [IdleSocket EXCEPT !.up = TRUE,
                                                          !.id = sockets[c].id + 1]]
  /\ UNCHANGED <<hook, chatSessions, chatMessages, connected, sessionIdUnique, messageIdUnique,
                 now, req, emitted, acks, fetch, listing, retry, rateLimitStore,
                 requestLog>>

\* socket.on('disconnect') : joinedSessions.clear(); the closed socket has left
\* its rooms
SocketDisconnect(c) ==
  /\ sockets[c].up
  /\ sockets' = [sockets EXCEPT ![c] = [IdleSocket EXCEPT !.id = sockets[c].id]]
  /\ UNCHANGED <<hook, chatSessions, chatMessages, connected, sessionIdUnique, messageIdUnique,
                 now, req, emitted, acks, fetch, listing, retry, rateLimitStore,
                 requestLog>>

\* socket.on('register-client')
RegisterClient(c, type) ==
  /\ sockets[c].up
  /\ Len(acks[c]) < MaxCalls
  /\ IF Falsy(type)
       THEN /\ Acked(c, "register-client", type, "session-error", FALSE,
                     "Invalid client registration data")
            /\ UNCHANGED sockets
       ELSE /\ sockets' = [sockets EXCEPT
                             ![c].clientType = type.value,
                             ![c].rooms = IF type.value = "dashboard"
                                            THEN JoinRoom(@, DashboardRoom) ELSE @]
            /\ Acked(c, "register-client", type, "client-registered", TRUE, "")
  /\ UNCHANGED <<hook, chatSessions, chatMessages, connected, sessionIdUnique, messageIdUnique,
                 now, req, emitted, fetch, listing, retry, rateLimitStore, requestLog>>

\* socket.on('join-session', (sessionId, callback))
JoinSession(c, sessionId, cb) ==
  /\ sockets[c].up
  /\ Len(acks[c]) < MaxCalls
  /\ IF InvalidSessionId(sessionId)
       THEN /\ Acked(c, "join-session", sessionId, Chan(cb, "session-error"), FALSE,
                     "Invalid session ID")
            /\ UNCHANGED sockets
       ELSE /\ sockets' = [sockets EXCEPT
                             ![c].rooms = JoinRoom(@, sessionId.value),
                             ![c].joinedSessions = JoinRoom(@, sessionId.value)]
            /\ Acked(c, "join-session", sessionId, Chan(cb, "joined-session"), TRUE, "")
  /\ UNCHANGED <<hook, chatSessions, chatMessages, connected, sessionIdUnique, messageIdUnique,
                 now, req, emitted, fetch, listing, retry, rateLimitStore, requestLog>>

NextRooms ==
  \E c \in Clients :
     \/ SocketConnect(c)
     \/ SocketDisconnect(c)
     \/ \E type \in ClientTypes : RegisterClient(c, type)
     \/ \E id \in JoinIds, cb \in BOOLEAN : JoinSession(c, id, cb)

SpecRooms == Init /\ [][NextRooms]_vars

\* ------------------------------------------------------------ event targets
\* the room an event is emitted to: io.to('dashboard-clients') for new-chat-session
\* and session-updated, io.to(sessionId) for the others
RoomOf(e) ==
  IF e.ev \in {"new-chat-session", "session-updated"} THEN DashboardRoom ELSE e.sid

\* ------------------------------------------------------------ useErrorHandler
\* src/hooks/useErrorHandler.ts : retryOperation. The callback is rebuilt by
\* useCallback whenever errorState.retryCount changes, and each instance closes
\* over the errorState and the retryOperation binding of the render that built
\* it: the timer it schedules calls that same instance again.

\* the most operation() invocations one retryOperation call is followed through
MaxHookCalls == 6

\* maxRetries = 3
HookDefaultMaxRetries == 3

\* the maxRetries option a component passes (or leaves to the default)
HookArgs == 1..MaxAttempts \cup {HookDefaultMaxRetries}

\* if (currentRetryCount >= maxRetries)
RetriesExhausted(currentRetryCount, maxRetries) == currentRetryCount >= maxRetries

\* if (currentRetryCount + 1 >= maxRetries)
WasLastRetry(currentRetryCount, maxRetries) == currentRetryCount + 1 >= maxRetries

\* the body of one retryOperation instance up to await operation(): give up
\* through handleError, or count the retry in the state and invoke the operation
EnterRetry(h) ==
  IF RetriesExhausted(h.captured, h.maxRetries)
    THEN [h EXCEPT !.pc = "reported"]
    ELSE [h EXCEPT !.pc = "operation", !.retryCount = @ + 1]

\* the component mounts: useErrorHandler({ maxRetries }) and useState
UseErrorHandler(maxRetries) ==
  /\ hook.pc = "unmounted"
  /\ hook' = [UnmountedHook EXCEPT !.pc = "mounted", !.maxRetries = maxRetries]
  /\ UNCHANGED <<chatSessions, chatMessages, connected, sessionIdUnique, messageIdUnique,
                 now, req, emitted, sockets, acks, fetch, listing, retry, rateLimitStore,
                 requestLog>>

\* the component calls the retryOperation of its latest render, which closed
\* over the current errorState.retryCount
RetryOperation ==
  /\ hook.pc \in {"mounted", "returned", "reported"}
  /\ hook' = EnterRetry([hook EXCEPT !.captured = hook.retryCount, !.invocations = 0])
  /\ UNCHANGED <<chatSessions, chatMessages, connected, sessionIdUnique, messageIdUnique,
                 now, req, emitted, sockets, acks, fetch, listing, retry, rateLimitStore,
                 requestLog>>

\* await operation() resolves: clearError() and return result
HookOperationResolves ==
  /\ hook.pc = "operation"
  /\ hook' = [hook EXCEPT !.pc = "returned", !.invocations = @ + 1, !.retryCount = 0]
  /\ UNCHANGED <<chatSessions, chatMessages, connected, sessionIdUnique, messageIdUnique,
                 now, req, emitted, sockets, acks, fetch, listing, retry, rateLimitStore,
                 requestLog>>

\* await operation() rejects: catch, handleError on the last retry, otherwise
\* setTimeout(() => retryOperation(operation), ...)
HookOperationRejects ==
  /\ hook.pc = "operation"
  /\ hook' = IF WasLastRetry(hook.captured, hook.maxRetries)
               THEN [hook EXCEPT !.pc = "reported", !.invocations = @ + 1]
               ELSE [hook EXCEPT !.pc = "scheduled", !.invocations = @ + 1]
  /\ UNCHANGED <<chatSessions, chatMessages, connected, sessionIdUnique, messageIdUnique,
                 now, req, emitted, sockets, acks, fetch, listing, retry, rateLimitStore,
                 requestLog>>

\* the timer fires: the retryOperation instance that scheduled it runs again,
\* with the errorState.retryCount it closed over
HookTimerFires ==
  /\ hook.pc = "scheduled"
  /\ hook.invocations < MaxHookCalls
  /\ hook' = EnterRetry(hook)
  /\ UNCHANGED <<chatSessions, chatMessages, connected, sessionIdUnique, messageIdUnique,
                 now, req, emitted, sockets, acks, fetch, listing, retry, rateLimitStore,
                 requestLog>>

\* the component calls clearError() between two operations
ClearError ==
  /\ hook.pc \in {"returned", "reported"}
  /\ hook.retryCount > 0
  /\ hook' = [hook EXCEPT !.retryCount = 0]
  /\ UNCHANGED <<chatSessions, chatMessages, connected, sessionIdUnique, messageIdUnique,
                 now, req, emitted, sockets, acks, fetch, listing, retry, rateLimitStore,
                 requestLog>>

NextHook ==
  \/ \E m \in HookArgs : UseErrorHandler(m)
  \/ RetryOperation
  \/ HookOperationResolves
  \/ HookOperationRejects
  \/ HookTimerFires
  \/ ClearError

SpecHook == Init /\ [][NextHook]_vars

\* ------------------------------------------------------------ properties
SendKinds == {"send-message", "POST-message"}
Open == {"waiting", "active"}
Joined(r) == req[r].kind = "agent-join-session"
Winners == {r \in Racers : Joined(r) /\ req[r].pc = "done" /\ req[r].ack.success}
MessagesWithId(id) == {i \in 1..Len(chatMessages) : chatMessages[i].id = id}
NewMessageEvents == {k \in 1..Len(emitted) : emitted[k].ev = "new-message"}

C2_AgentNeverReplaced ==
  [][\A i \in 1..Len(chatSessions) :
        (chatSessions[i].status = "active" /\ chatSessions[i].agentId \in Agents
           /\ chatSessions'[i].status = "active")
        => chatSessions'[i].agentId = chatSessions[i].agentId]_vars

\* C3 (as claimed): agentId is non-empty if and only if status = active
C3_AgentIffActive ==
  \A i \in 1..Len(chatSessions) :
     (chatSessions[i].agentId \notin {Absent, ""}) <=> (chatSessions[i].status = "active")

\* C4 (as claimed): a closed session stays closed
C4_ClosedIsTerminal ==
  [][\A i \in 1..Len(chatSessions) :
        chatSessions[i].status = "closed" => chatSessions'[i].status = "closed"]_vars

\* C5: a send-message or POST /api/chat-messages request that finds its session
\* closed is answered with a failure and stores no message
C5_ClosedSessionRejects ==
  \A r \in Reqs :
     (req[r].kind \in SendKinds /\ req[r].sawStatus = "closed") =>
        /\ req[r].pc = "done"
        /\ ~req[r].ack.success
        /\ req[r].ack.error # ""
        /\ req[r].ack.chan # "none"
        /\ ~req[r].inserted
        /\ \A i \in 1..Len(chatMessages) : chatMessages[i]._id # r

C5_Witness ==
  \E r, q \in Reqs :
     /\ req[r].kind = "send-message"
     /\ req[r].ack.error = "Cannot send message to closed session"
     /\ req[q].kind = "POST-message"
     /\ req[q].sawStatus = "closed"
     /\ req[q].ack.error = "Validation"

\* C6 (as claimed): no message is inserted while its session is stored as closed
C6_NoInsertIntoClosed ==
  \A i \in 1..Len(chatMessages) : chatMessages[i].sessionStatusAtInsert \in Open

\* C7: a send-message whose id is already stored when it starts, on a session that
\* is not closed, inserts nothing; if the store answers its reads, the callback gets
\* success:true, duplicate:true and the stored message with that id
C7_IdempotentReplay ==
  \A r \in Reqs :
     (req[r].kind = "send-message" /\ req[r].dupAtStart /\ req[r].sawStatus \in Open) =>
        /\ ~req[r].inserted
        /\ req[r].pc \in {"send_dedup", "done"}
        /\ \A i \in 1..Len(chatMessages) : chatMessages[i]._id # r
        /\ (req[r].pc = "done" /\ req[r].ack.error # "store") =>
              /\ req[r].ack.success
              /\ req[r].ack.duplicate
              /\ \E i \in MessagesWithId(req[r].mid) : chatMessages[i]._id = req[r].ack.mid

C7_Witness ==
  \E r \in Reqs :
     /\ req[r].kind = "send-message" /\ req[r].dupAtStart
     /\ req[r].pc = "done" /\ req[r].ack.chan = "callback"
     /\ req[r].ack.duplicate
     /\ Cardinality(MessagesWithId(req[r].mid)) = 1

\* C8 (as claimed): two send-message requests with the same id, both on an open
\* session and both answered by the store: one message with that id is stored and
\* the request that did not insert is acknowledged as a duplicate
C8_ConcurrentSameIdDeduplicated ==
  \A r, q \in Reqs :
     ( /\ r # q
       /\ req[r].kind = "send-message" /\ req[q].kind = "send-message"
       /\ req[r].mid \in MsgIds /\ req[q].mid = req[r].mid
       /\ req[r].sawStatus \in Open /\ req[q].sawStatus \in Open
       /\ req[r].pc = "done" /\ req[q].pc = "done"
       /\ req[r].ack.error # "store" /\ req[q].ack.error # "store" )
     => /\ Cardinality(MessagesWithId(req[r].mid)) = 1
        /\ ~req[r].inserted => (req[r].ack.success /\ req[r].ack.duplicate)

\* C9: every new-message event names a message that is in the store, and a
\* send-message that inserted nothing has emitted no new-message
C9_PersistBeforeBroadcast ==
  /\ \A k \in NewMessageEvents :
        \E i \in 1..Len(chatMessages) : chatMessages[i]._id = emitted[k].mid
  /\ \A r \in Reqs : ~req[r].inserted =>
        \A k \in NewMessageEvents : emitted[k].mid # r

\* C9 witness: one message was broadcast, another request's insert was refused
C9_Witness ==
  /\ NewMessageEvents # {}
  /\ \E r \in Reqs : /\ req[r].kind = "send-message"
                     /\ req[r].ack.error = "duplicate key"

\* C10 (as claimed): the createdAt order of a session's messages agrees with the
\* order in which the store applied their inserts
C10_CreatedAtFollowsInsertOrder ==
  \A i, j \in 1..Len(chatMessages) :
     (i < j /\ chatMessages[i].sessionId = chatMessages[j].sessionId)
     => chatMessages[i].createdAt <= chatMessages[j].createdAt

\* a message history request that was answered with the messages
FetchOk == fetch.pc = "done" /\ fetch.response.status = 200
StoredBeforeFetch == {k \in MessagesOf(fetch.sid) : k <= fetch.storedAtStart}

\* n = ceil(a / b)
IsCeil(n, a, b) == n * b >= a /\ (n - 1) * b < a

\* C11 (as claimed): every answered read of a session's history lists its messages
\* by non-decreasing createdAt, and a read that reports no further page contains
\* every message that was stored for the session before the read started
C11_HistoryReadsSortedAndComplete ==
  FetchOk =>
     LET d == fetch.response.data
         p == fetch.response.pagination
     IN  /\ \A i, j \in 1..Len(d) : i < j => d[i].createdAt <= d[j].createdAt
         /\ (p.page = 1 /\ ~p.hasNext) =>
               \A k \in StoredBeforeFetch : \E i \in 1..Len(d) : d[i] = chatMessages[k]

\* C15 (as claimed): the pagination descriptor of an answered GET /api/chat-messages
\* (no insert in between) has total = the stored messages of the session,
\* totalPages = ceil(total / limit), hasNext = (page < totalPages), hasPrev = (page > 1)
C15_MessagePaginationDescriptor ==
  (FetchOk /\ fetch.storedAtEnd = fetch.storedAtStart) =>
     LET p == fetch.response.pagination
         stored == Cardinality(StoredBeforeFetch)
     IN  /\ p.page = fetch.page
         /\ p.limit = fetch.limit
         /\ p.total = stored
         /\ IsCeil(p.totalPages, stored, p.limit)
         /\ p.hasNext = (p.page < p.totalPages)
         /\ p.hasPrev = (p.page > 1)

\* the answers a listing holds, and the places <<page, position>> of the listed ids
Answers == 1..Len(listing.pages)
LastAnswer == listing.pages[Len(listing.pages)]
Listed == {x \in Answers \X (1..MaxPageSize) : x[2] <= Len(listing.pages[x[1]].data)}
ListedId(x) == listing.pages[x[1]].data[x[2]]

\* the sessions that satisfy the filters: the wanted statuses and, for each bound
\* that was supplied, min <= value <= max
Satisfying(f) ==
  {i \in 1..Len(chatSessions) :
      /\ f.status # {} => chatSessions[i].status \in f.status
      /\ f.minDuration # Missing => Duration(chatSessions[i]) >= f.minDuration
      /\ f.maxDuration # Missing => Duration(chatSessions[i]) <= f.maxDuration
      /\ f.minMessageCount # Missing => MessageCount(chatSessions[i]) >= f.minMessageCount
      /\ f.maxMessageCount # Missing => MessageCount(chatSessions[i]) <= f.maxMessageCount}

\* C12: on the simple path and on the aggregation path alike, every answer of
\* getSessions has page >= 1 (the requested page when that is >= 1), limit in
\* 1..100 (the requested limit when in range), totalPages = ceil(total / limit),
\* hasNext = (page < totalPages) and hasPrev = (page > 1)
C12_SamePaginationOnBothPaths ==
  \A k \in Answers :
     LET p == listing.pages[k].pagination
         asked == IF k = 1 THEN listing.page
                  ELSE listing.pages[k - 1].pagination.page + 1
     IN  /\ listing.pages[k].path \in {"simple", "aggregation"}
         /\ p.page >= 1
         /\ asked >= 1 => p.page = asked
         /\ p.limit \in 1..100
         /\ listing.limit \in 1..100 => p.limit = listing.limit
         /\ p.total >= 0
         /\ IsCeil(p.totalPages, p.total, p.limit)
         /\ p.hasNext = (p.page < p.totalPages)
         /\ p.hasPrev = (p.page > 1)

\* C12 witness: the second and last page of an aggregation-path listing of two
\* sessions with limit 1
C12_Witness ==
  /\ listing.pc = "open"
  /\ Len(listing.pages) = 2
  /\ LastAnswer.path = "aggregation"
  /\ LastAnswer.pagination = [page |-> 2, limit |-> 1, total |-> 2, totalPages |-> 2,
                              hasNext |-> FALSE, hasPrev |-> TRUE]

\* no bound of 0 among the filters (the case C14 is about)
NoZeroBound(f) ==
  0 \notin {f.minDuration, f.maxDuration, f.minMessageCount, f.maxMessageCount}

\* C13 (as claimed, for filters without a bound of 0): a client that reads pages
\* 1..totalPages of an unchanging store has been given exactly `total` sessions,
\* none twice, and they are the sessions that satisfy the base and derived-field
\* predicates
C13_PagesPartitionTheResult ==
  ( /\ listing.pc = "open"
    /\ NoZeroBound(listing.filters)
    /\ listing.pages[1].pagination.page = 1
    /\ ~LastAnswer.pagination.hasNext )
  => /\ Cardinality(Listed) = listing.pages[1].pagination.total
     /\ \A x, y \in Listed : ListedId(x) = ListedId(y) => x = y
     /\ {ListedId(x) : x \in Listed}
          = {chatSessions[i].id : i \in Satisfying(listing.filters)}

\* C14 (as claimed): getSessions counts and returns exactly the sessions that
\* satisfy the base filters and every supplied bound, the bounds being inclusive
\* and a bound of 0 being a bound
C14_DerivedFiltersExact ==
  listing.pc = "open" =>
     /\ \A k \in Answers :
          listing.pages[k].pagination.total = Cardinality(Satisfying(listing.filters))
     /\ \A x \in Listed :
          \E i \in Satisfying(listing.filters) : chatSessions[i].id = ListedId(x)

\* C16: withRetry invokes the operation at most maxRetries times; while it runs,
\* attempt counts the invocations; it returns on the first attempt that resolves
\* (every earlier one was rejected, none follows); and it throws only after
\* maxRetries rejected attempts, the error of the last one
C16_RetryBounded ==
  /\ retry.invocations <= retry.maxRetries
  /\ Len(retry.waited) <= retry.invocations
  /\ retry.pc = "call" =>
        /\ retry.attempt \in 1..retry.maxRetries
        /\ retry.invocations = retry.attempt - 1
        /\ Len(retry.raised) = retry.invocations
  /\ retry.pc = "backoff" =>
        /\ retry.attempt < retry.maxRetries
        /\ retry.invocations = retry.attempt
        /\ Len(retry.raised) = retry.invocations
  /\ retry.pc = "returned" =>
        /\ retry.invocations = Len(retry.raised) + 1
        /\ retry.thrown = "none"
  /\ retry.pc = "thrown" =>
        /\ retry.invocations = retry.maxRetries
        /\ Len(retry.raised) = retry.maxRetries
        /\ retry.thrown \in ErrorKinds
        /\ retry.thrown = retry.raised[retry.maxRetries]

\* C16 witness: the default three attempts were all rejected and the error of the
\* third was thrown, after backoffs of 1000 and 2000 ms
C16_Witness ==
  /\ retry.pc = "thrown"
  /\ retry.maxRetries = 3
  /\ retry.invocations = 3
  /\ retry.waited = <<1000, 2000>>
  /\ retry.thrown = "transient"

\* C17 (as claimed): after a validation, not-found or conflict error the operation
\* is not invoked again
C17_DeterministicNotRetried ==
  \A k \in 1..Len(retry.raised) :
     retry.raised[k] \in {"validation", "not_found", "conflict"} => retry.invocations = k

\* the earlier requests of the same client, and the latest of them
EarlierOf(i) == {j \in 1..(i - 1) : requestLog[j].key = requestLog[i].key}
Previous(i) == IF EarlierOf(i) = {} THEN 0 ELSE Max(EarlierOf(i))
\* request i found no window, or one that had expired
OpensWindow(i) == Previous(i) = 0 \/ requestLog[Previous(i)].reset < requestLog[i].at
\* the requests of i's window that were allowed before i
AllowedBefore(i) ==
  {j \in EarlierOf(i) : requestLog[j].reset = requestLog[i].reset /\ requestLog[j].allowed}

\* the requests of i's window that were answered before i
InWindowBefore(i) == {j \in EarlierOf(i) : requestLog[j].reset = requestLog[i].reset}

\* C18: a request that finds no window of its client, or an expired one, is allowed
\* and opens a window of windowMs with count 1; a request inside a window is allowed
\* exactly when fewer than maxRequests requests of the window were allowed before
\* it, which for routes of one maxRequests are exactly the first maxRequests
\* requests of the window; a rejected request is answered 429 with retryAfter = ceil((resetTime - now)
\* / 1000); and the stored count is the number of requests allowed in the window
C18_RateLimitThreshold ==
  /\ \A i \in 1..Len(requestLog) :
        LET e == requestLog[i]
        IN  /\ e.at <= e.reset
            /\ OpensWindow(i) =>
                  /\ e.allowed
                  /\ e.reset = e.at + WindowMs
                  /\ AllowedBefore(i) = {}
            /\ ~OpensWindow(i) =>
                  /\ e.reset = requestLog[Previous(i)].reset
                  /\ e.allowed <=> Cardinality(AllowedBefore(i)) < e.max
            /\ (\A j \in InWindowBefore(i) : requestLog[j].max = e.max) =>
                  (e.allowed <=> Cardinality(InWindowBefore(i)) < e.max)
            /\ ~e.allowed =>
                  /\ e.status = 429
                  /\ IsCeil(e.retryAfter, e.reset - e.at, 1000)
  /\ \A k \in ClientKeys :
        rateLimitStore[k] # NoWindow =>
           rateLimitStore[k].count =
              Cardinality({j \in 1..Len(requestLog) :
                              /\ requestLog[j].key = k
                              /\ requestLog[j].reset = rateLimitStore[k].resetTime
                              /\ requestLog[j].allowed})

\* C18 witness: with maxRequests = 1, a client's first request is allowed, its
\* second, 500 ms before the reset, is rejected with retryAfter 1, and its third,
\* after the reset, is allowed and opens a new window
C18_Witness ==
  \E k \in ClientKeys :
     /\ Len(requestLog) = 3
     /\ \A i \in 1..3 : requestLog[i].key = k /\ requestLog[i].max = 1
     /\ requestLog[1].allowed
     /\ ~requestLog[2].allowed
     /\ requestLog[2].reset - requestLog[2].at = 500
     /\ requestLog[2].retryAfter = 1
     /\ requestLog[3].allowed
     /\ requestLog[3].reset > requestLog[1].reset
     /\ rateLimitStore[k].count = 1

\* C19 (as claimed): a request of agent-join-session or close-session that has
\* changed the status of its session and ends without an error has, in its last
\* step, emitted an event to the dashboard room that names the session
C19_TransitionNotifiesObservers ==
  [][\A r \in Reqs :
       ( /\ req[r].pc # "done"
         /\ req'[r].pc = "done"
         /\ req'[r].kind \in {"agent-join-session", "close-session"}
         /\ req'[r].inserted
         /\ req'[r].ack.error = "" )
       => \E k \in (Len(emitted) + 1)..Len(emitted') :
             /\ RoomOf(emitted'[k]) = DashboardRoom
             /\ emitted'[k].sid = req'[r].sid]_vars

\* a session id that join-session accepts, and the answers to join-session
ValidId(x) == x.type = "string" /\ x.value # ""
LastAck(c) == acks'[c][Len(acks'[c])]
JoinedOn(c) ==
  {acks[c][k].arg.value : k \in {j \in 1..Len(acks[c]) :
                                    /\ acks[c][j].event = "join-session"
                                    /\ acks[c][j].socket = sockets[c].id
                                    /\ ValidId(acks[c][j].arg)}}

\* a join-session of client c is answered in this step
C20_JoinStep(c) ==
  (Len(acks'[c]) = Len(acks[c]) + 1 /\ LastAck(c).event = "join-session") =>
     /\ LastAck(c).socket = sockets[c].id
     /\ IF ValidId(LastAck(c).arg)
          THEN /\ sockets'[c].rooms = sockets[c].rooms \cup {LastAck(c).arg.value}
               /\ LastAck(c).success
               /\ LastAck(c).chan \in {"callback", "joined-session"}
          ELSE /\ sockets'[c].rooms = sockets[c].rooms
               /\ ~LastAck(c).success
               /\ LastAck(c).chan \in {"callback", "session-error"}
     /\ chatSessions' = chatSessions
     /\ chatMessages' = chatMessages

\* C20: the session rooms of a connection are the valid ids it has joined at
\* least once, however often; every join-session with a valid id adds its room (or
\* leaves the membership as it is) and is acknowledged success:true, every other
\* one changes no membership and is acknowledged as a failure; none changes a
\* stored session or message
C20_JoinSessionIdempotent ==
  /\ [](\A c \in Clients :
          sockets[c].up => sockets[c].rooms \ {DashboardRoom} = JoinedOn(c))
  /\ [][\A c \in Clients : C20_JoinStep(c)]_vars

\* C20 witness: a client joined s1 twice, disconnected, reconnected and joined s1
\* again; its new socket is in the room s1 once
C20_Witness ==
  \E c \in Clients :
     /\ Len(acks[c]) = 3
     /\ \A k \in 1..3 : /\ acks[c][k].event = "join-session"
                        /\ acks[c][k].arg = Str("s1")
                        /\ acks[c][k].success
     /\ acks[c][1].socket = 1 /\ acks[c][2].socket = 1 /\ acks[c][3].socket = 2
     /\ sockets[c].up
     /\ sockets[c].rooms = {"s1"}
     /\ sockets[c].joinedSessions = {"s1"}

\* C21 (as claimed): a join-session for an id that no stored session carries is
\* answered as a failure and adds no room to the connection
C21_JoinUnknownSessionFails ==
  [][\A c \in Clients :
       ( /\ Len(acks'[c]) = Len(acks[c]) + 1
         /\ LastAck(c).event = "join-session"
         /\ ValidId(LastAck(c).arg)
         /\ ~HasId(chatSessions, LastAck(c).arg.value) )
       => /\ ~LastAck(c).success
          /\ sockets'[c].rooms = sockets[c].rooms]_vars

\* C22 (as claimed): a failed request of a socket handler is reported through the
\* callback when the caller supplied one, and through session-error otherwise
C22_FailureReportedOnCallerChannel ==
  \A r \in Reqs :
     ( /\ req[r].pc = "done"
       /\ req[r].kind \in {"create-session", "send-message", "agent-join-session",
                            "close-session"}
       /\ req[r].ack.error # "" )
     => req[r].ack.chan = IF req[r].ack.supplied THEN "callback" ELSE "session-error"

\* C23 (as claimed): session-closed is never emitted for a session while an
\* agent-join-session whose update the store has already applied has not yet
\* emitted its agent-joined / session-updated notification
C23_StatusNotificationsInStoreOrder ==
  [][\A k \in (Len(emitted) + 1)..Len(emitted') :
       emitted'[k].ev = "session-closed" =>
          ~\E r \in Reqs : /\ req[r].pc = "join_reread"
                           /\ req[r].inserted
                           /\ req[r].sid = emitted'[k].sid]_vars

\* C24 (as claimed): a step that takes a stored session from active to waiting
\* leaves it without agentId and agentName
C24_ReleaseClearsAgent ==
  [][\A i \in 1..Len(chatSessions) :
       (chatSessions[i].status = "active" /\ chatSessions'[i].status = "waiting")
       => /\ chatSessions'[i].agentId \in {Absent, ""}
          /\ chatSessions'[i].agentName \in {Absent, ""}]_vars

\* C26 (as claimed): a message of sender agent is inserted only while its session
\* is stored with an agentId
C26_AgentMessageNeedsAgent ==
  [][( /\ Len(chatMessages') = Len(chatMessages) + 1
       /\ chatMessages'[Len(chatMessages')].sender = "agent" )
     => LET session == FindOne(chatSessions, chatMessages'[Len(chatMessages')].sessionId,
                               NoDoc)
        IN  /\ session # NoDoc
            /\ session.agentId \notin {Absent, ""}]_vars

\* C27 (as claimed): no two stored sessions carry the same id, and a creation that
\* loses against a stored id is not answered with the store's duplicate-key error
C27_SessionIdsUnique ==
  /\ NoDuplicateIds(chatSessions)
  /\ \A r \in Reqs :
        (req[r].pc = "done" /\ req[r].kind = "create-session")
        => req[r].ack.error # "duplicate key"

\* C29 (as claimed): a session is inserted with status waiting and no agentId
C29_CreatedWaiting ==
  [][Len(chatSessions') = Len(chatSessions) + 1
     => /\ chatSessions'[Len(chatSessions')].status = "waiting"
        /\ chatSessions'[Len(chatSessions')].agentId = Absent]_vars

\* C25 (as claimed): a close-session that reports no error found its session,
\* leaves it closed, and, when it was closed already, leaves the stored document
\* as it was
C25_CloseIdempotent ==
  [][\A r \in Reqs :
       ( /\ req[r].pc = "idle"
         /\ req'[r].pc = "done"
         /\ req'[r].kind = "close-session"
         /\ req'[r].ack.error = "" )
       => LET before == FindOne(chatSessions, req[r].sid, NoDoc)
              after == FindOne(chatSessions', req[r].sid, NoDoc)
          IN  /\ before # NoDoc
              /\ after.status = "closed"
              /\ before.status = "closed" => after = before]_vars

\* C28 (as claimed): a connection registered as a dashboard observer (the live
\* dashboard or the chat-history dashboard) is a member of the room that
\* new-chat-session and session-updated are emitted to, whatever session rooms it
\* has joined
C28_ObserversReceiveBroadcasts ==
  \A c \in Clients :
     (sockets[c].up /\ sockets[c].clientType \in ObserverTypes)
     => RoomOf(Ev("session-updated", "s1", 0, Absent, Absent)) \in sockets[c].rooms

\* the computed field a listing is sorted by, for the session of a listed id
DerivedKey(id, sortBy) ==
  LET doc == FindOne(chatSessions, id, NoDoc)
  IN  IF sortBy = "messageCount" THEN MessageCount(doc) ELSE Duration(doc)

\* C30 (as claimed): a listing sorted by messageCount or duration without a
\* derived-field filter returns every page in the order of the computed field, in
\* the requested direction
C30_SortByDerivedField ==
  ( /\ listing.pc = "open"
    /\ listing.sortBy \in {"messageCount", "duration"}
    /\ ~NeedsAggregation(listing.filters) )
  => \A n \in 1..Len(listing.pages) :
        \A a, b \in 1..Len(listing.pages[n].data) :
           a < b => SortDir(listing.sortOrder)
                       * DerivedKey(listing.pages[n].data[a], listing.sortBy)
                    <= SortDir(listing.sortOrder)
                       * DerivedKey(listing.pages[n].data[b], listing.sortBy)

\* the messages of the session that were stored when the read was answered
StoredAtAnswer ==
  {j \in 1..fetch.storedAtEnd : chatMessages[j].sessionId = fetch.sid}

\* C31 (as claimed): a recent-messages read of a session that holds more than
\* `limit` messages returns `limit` messages in chronological order, and no
\* message it leaves out is newer than one it returns
C31_RecentMessagesAreTheLatest ==
  ( /\ fetch.pc = "done"
    /\ fetch.response.status = 200
    /\ IsRecentRequest(fetch.page, fetch.limit)
    /\ Cardinality(StoredAtAnswer) > fetch.limit )
  => LET data == fetch.response.data
     IN  /\ Len(data) = fetch.limit
         /\ \A a, b \in 1..Len(data) : a < b => data[a].createdAt <= data[b].createdAt
         /\ \A j \in StoredAtAnswer :
               (\A k \in 1..Len(data) : data[k] # chatMessages[j])
               => \A k \in 1..Len(data) : chatMessages[j].createdAt <= data[k].createdAt

\* C32 (as claimed): for a client whose requests all meet the same maxRequests, no
\* interval of length windowMs contains more than maxRequests allowed requests
C32_SlidingWindowBound ==
  \A i \in 1..Len(requestLog) :
     (\A j \in 1..Len(requestLog) :
         requestLog[j].key = requestLog[i].key => requestLog[j].max = requestLog[i].max)
     => Cardinality({j \in 1..Len(requestLog) :
                        /\ requestLog[j].key = requestLog[i].key
                        /\ requestLog[j].allowed
                        /\ requestLog[i].at <= requestLog[j].at
                        /\ requestLog[j].at < requestLog[i].at + WindowMs})
          <= requestLog[i].max

\* C38 (as claimed): a request is rejected only when its own route (the requests
\* with the same maxRequests) has already been allowed maxRequests requests of the
\* client in the window
C38_EndpointsIndependent ==
  \A i \in 1..Len(requestLog) :
     ~requestLog[i].allowed
     => Cardinality({j \in AllowedBefore(i) : requestLog[j].max = requestLog[i].max})
          >= requestLog[i].max

\* the stored message and the broadcast of a send-message request
MessageOf(r) == {j \in 1..Len(chatMessages) : chatMessages[j]._id = r}
BroadcastOf(r) ==
  {k \in 1..Len(emitted) : emitted[k].ev = "new-message" /\ emitted[k].mid = r}

\* C33: the message a send-message inserted stays stored and broadcast whatever
\* happens to the request afterwards; the step that ends the request after the
\* insert changes neither; when that step fails it leaves the session as it was,
\* and when it succeeds the session's updatedAt is the message's createdAt
C33_BumpIsBestEffort ==
  /\ [](\A r \in Reqs :
          (req[r].kind = "send-message" /\ req[r].inserted)
          => MessageOf(r) # {} /\ BroadcastOf(r) # {})
  /\ [][\A r \in Reqs :
          (req[r].pc = "send_bump" /\ req'[r].pc = "done")
          => /\ chatMessages' = chatMessages
             /\ emitted' = emitted
             /\ ~req'[r].ack.success => chatSessions' = chatSessions
             /\ req'[r].ack.success =>
                  \A j \in MessageOf(r) :
                     FindOne(chatSessions', req[r].sid, NoDoc).updatedAt
                       = chatMessages[j].createdAt]_vars

\* C33 witness: after a tick of the clock a send-message ended with the store's
\* error on its updatedAt bump; its message is stored and was broadcast
C33_Witness ==
  \E r \in Reqs :
     /\ req[r].pc = "done"
     /\ req[r].kind = "send-message"
     /\ req[r].inserted
     /\ req[r].ack.error = "store"
     /\ MessageOf(r) # {}
     /\ BroadcastOf(r) # {}
     /\ now > 0

\* C34 (as claimed): a send-message that was answered with a failure has stored
\* and broadcast nothing
C34_FailureMeansNothingHappened ==
  \A r \in Reqs :
     (req[r].pc = "done" /\ req[r].kind = "send-message" /\ req[r].ack.error # "")
     => MessageOf(r) = {} /\ BroadcastOf(r) = {}

\* C35 (as claimed): no step lowers the updatedAt of a stored session
C35_UpdatedAtNeverDecreases ==
  [][\A i \in 1..Len(chatSessions) :
       chatSessions'[i].updatedAt >= chatSessions[i].updatedAt]_vars

\* C36 (as claimed): the new-message events of a session are emitted in the order
\* of the createdAt of their messages
C36_BroadcastInCreatedAtOrder ==
  \A a, b \in 1..Len(emitted) :
     ( /\ a < b
       /\ emitted[a].ev = "new-message" /\ emitted[b].ev = "new-message"
       /\ emitted[a].sid = emitted[b].sid )
     => \A i \in MessageOf(emitted[a].mid), j \in MessageOf(emitted[b].mid) :
           chatMessages[i].createdAt <= chatMessages[j].createdAt

\* C37 (as claimed): a successful agent-join-session is acknowledged with a
\* session that is active and assigned to the requesting agent
C37_JoinAckCarriesActiveSession ==
  \A r \in Reqs :
     (req[r].pc = "done" /\ req[r].kind = "agent-join-session" /\ req[r].ack.success)
     => req[r].ack.status = "active" /\ req[r].ack.agentId = req[r].agentId

\* C39 (as claimed): a connection is in the room dashboard-clients exactly while
\* its registered clientType is 'dashboard'
C39_DashboardRoomIffDashboardType ==
  \A c \in Clients :
     sockets[c].up =>
        (DashboardRoom \in sockets[c].rooms <=> sockets[c].clientType = "dashboard")

\* C40: retryOperation terminates: for an operation that keeps failing it invokes
\* the operation at most maxRetries times in total, the retries it schedules
\* through setTimeout included, and then reports the error through handleError
\* instead of scheduling another attempt.
C40_RetryOperationTerminates ==
  /\ hook.invocations <= hook.maxRetries
  /\ (hook.pc = "scheduled" => hook.invocations < hook.maxRetries)

====
